---- MODULE Spec2Model ----
(***************************************************************************)
(* A model of the Mapper class of pallad-ts/mapper (src/src/Mapper.ts).    *)
(*                                                                         *)
(* The mapper's fields are the first eight variables.  `registrations' is  *)
(* a history of the registerMapping calls (the arguments passed and the    *)
(* dark name resolved); `call', `ret' and `factoryCalls' observe the *)
(* most recent method call: its name and arguments, the value it returned, *)
(* and the factory invocations it made.                                    *)
(*                                                                         *)
(* Caller-supplied callbacks are uninterpreted: applying a callback builds *)
(* a term that records the callback and its argument, so that two results  *)
(* are equal only if the same callbacks were applied to the same inputs.   *)
(* Objects are plain records (own properties only).                        *)
(***************************************************************************)
EXTENDS Naturals, Sequences, FiniteSets, TLC

VARIABLES lightFactory, darkFactory, nameTransformer, fieldMap, reverseFieldMap,
          toLightTransformers, toDarkTransformers, partialMappings,
          registrations, call, ret, factoryCalls

config == <<lightFactory, darkFactory, nameTransformer, fieldMap, reverseFieldMap,
            toLightTransformers, toDarkTransformers, partialMappings>>

vars == <<lightFactory, darkFactory, nameTransformer, fieldMap, reverseFieldMap,
          toLightTransformers, toDarkTransformers, partialMappings,
          registrations, call, ret, factoryCalls>>

---------------------------------------------------------------------------
(* Bounds of the model.                                                    *)

MaxRegistrations == 3
MaxMapRegistrations == 2
MaxPartialMappings == 2
MaxArrayLen == 2

---------------------------------------------------------------------------
(* Field names: strings, numbers and symbols (keyof TLight / keyof TDark). *)
(* A number is written by its canonical decimal string.                    *)

Str(s) == [kind |-> "string", val |-> s]
Num(s) == [kind |-> "number", val |-> s]
Sym(s) == [kind |-> "symbol", val |-> s]

(* The value `undefined', as a field name and as a field value.            *)
Undefined == [kind |-> "undefined", val |-> ""]
UndefinedValue == <<"undefined">>

(* An optional callback that was not given.                                *)
Absent == "absent"

(* JavaScript truthiness of a field name: undefined, 0 and '' are falsy.   *)
Truthy(name) ==
    /\ name # Undefined
    /\ name # Num("0")
    /\ name # Str("")

(* The key under which obj[name] reads and writes: a number is converted   *)
(* to its decimal string, strings and symbols are kept.                    *)
ToPropertyKey(name) ==
    IF name.kind = "number" THEN Str(name.val) ELSE name

---------------------------------------------------------------------------
(* Map: keys in insertion order; set() of a present key replaces its value *)
(* in place, set() of a new key appends.  A Map is a sequence of entries.  *)

MapKeys(m) == [i \in 1..Len(m) |-> m[i].key]

MapHas(m, key) == \E i \in 1..Len(m) : m[i].key = key

MapGet(m, key) ==
    IF MapHas(m, key)
    THEN m[CHOOSE i \in 1..Len(m) : m[i].key = key].value
    ELSE Undefined

MapSet(m, key, value) ==
    IF MapHas(m, key)
    THEN [i \in 1..Len(m) |-> IF m[i].key = key
                              THEN [key |-> key, value |-> value]
                              ELSE m[i]]
    ELSE Append(m, [key |-> key, value |-> value])

---------------------------------------------------------------------------
(* Callbacks.                                                              *)

(* nameTransformer(name): a string derived from the name and the callback. *)
ApplyNameTransformer(transformer, lightName) ==
    Str(transformer \o "_" \o lightName.val)

(* transformer(value)                                                       *)
ApplyTransformer(transformer, value) == <<transformer>> \o value

(* The value `this' returned by the configuration methods.                 *)
This == "this"

---------------------------------------------------------------------------
(* Construction.                                                           *)

Init ==
    /\ lightFactory = Absent
    /\ darkFactory = Absent
    /\ nameTransformer = Absent
    /\ fieldMap = <<>>
    /\ reverseFieldMap = <<>>
    /\ toLightTransformers = <<>>
    /\ toDarkTransformers = <<>>
    /\ partialMappings = <<>>
    /\ registrations = <<>>
    /\ call = [op |-> "create", args |-> <<>>]
    /\ ret = This
    /\ factoryCalls = <<>>

---------------------------------------------------------------------------
(* Configuration methods.                                                  *)

UseFactory(factory) ==
    /\ lightFactory' = factory
    /\ call' = [op |-> "useFactory", args |-> <<factory>>]
    /\ ret' = This
    /\ factoryCalls' = <<>>
    /\ UNCHANGED <<darkFactory, nameTransformer, fieldMap, reverseFieldMap,
                   toLightTransformers, toDarkTransformers, partialMappings,
                   registrations>>

UseLightFactory(factory) == UseFactory(factory)

UseDarkFactory(factory) ==
    /\ darkFactory' = factory
    /\ call' = [op |-> "useDarkFactory", args |-> <<factory>>]
    /\ ret' = This
    /\ factoryCalls' = <<>>
    /\ UNCHANGED <<lightFactory, nameTransformer, fieldMap, reverseFieldMap,
                   toLightTransformers, toDarkTransformers, partialMappings,
                   registrations>>

UseNameTransformer(transformer) ==
    /\ nameTransformer' = transformer
    /\ call' = [op |-> "useNameTransformer", args |-> <<transformer>>]
    /\ ret' = This
    /\ factoryCalls' = <<>>
    /\ UNCHANGED <<lightFactory, darkFactory, fieldMap, reverseFieldMap,
                   toLightTransformers, toDarkTransformers, partialMappings,
                   registrations>>

(* getDarkName: the dark name of a registration that names none.           *)
GetDarkNameAnyKind(lightName) ==
    IF nameTransformer # Absent
    THEN ApplyNameTransformer(nameTransformer, lightName)
    ELSE lightName

GetDarkName(lightName) ==
    IF lightName.kind = "string"
    THEN IF nameTransformer # Absent
         THEN ApplyNameTransformer(nameTransformer, lightName)
         ELSE lightName
    ELSE lightName

(* const finalDarkName = darkName ? darkName : this.getDarkName(lightName) *)
FinalDarkName(lightName, darkName) ==
    IF Truthy(darkName) THEN darkName ELSE GetDarkName(lightName)

(* this.fieldMap.set(lightName, finalDarkName)                             *)
SetFieldMap(lightName, finalDarkName) ==
    MapSet(fieldMap, lightName, finalDarkName)

(* this.reverseFieldMap.set(finalDarkName, lightName)                      *)
SetReverseFieldMapSwapped(lightName, finalDarkName) ==
    MapSet(reverseFieldMap, lightName, finalDarkName)

SetReverseFieldMap(lightName, finalDarkName) ==
    MapSet(reverseFieldMap, finalDarkName, lightName)

(* options of registerMapping; NoOptions is the omitted argument.          *)
NoOptions == [toLightTransformer |-> Absent, toDarkTransformer |-> Absent]

RegisterMapping(lightName, darkName, options) ==
    LET finalDarkName == FinalDarkName(lightName, darkName) IN
    /\ fieldMap' = SetFieldMap(lightName, finalDarkName)
    /\ reverseFieldMap' = SetReverseFieldMap(lightName, finalDarkName)
    /\ toDarkTransformers' =
           IF options.toDarkTransformer # Absent
           THEN MapSet(toDarkTransformers, finalDarkName, options.toDarkTransformer)
           ELSE toDarkTransformers
    /\ toLightTransformers' =
           IF options.toLightTransformer # Absent
           THEN MapSet(toLightTransformers, lightName, options.toLightTransformer)
           ELSE toLightTransformers
    /\ registrations' = Append(registrations,
                               [lightName |-> lightName, given |-> darkName,
                                darkName |-> finalDarkName, options |-> options])
    /\ call' = [op |-> "registerMapping", args |-> <<lightName, darkName, options>>]
    /\ ret' = This
    /\ factoryCalls' = <<>>
    /\ UNCHANGED <<lightFactory, darkFactory, nameTransformer, partialMappings>>

UsePartialMapping(mapping) ==
    /\ partialMappings' = Append(partialMappings, mapping)
    /\ call' = [op |-> "usePartialMapping", args |-> <<mapping>>]
    /\ ret' = This
    /\ factoryCalls' = <<>>
    /\ UNCHANGED <<lightFactory, darkFactory, nameTransformer, fieldMap,
                   reverseFieldMap, toLightTransformers, toDarkTransformers,
                   registrations>>

---------------------------------------------------------------------------
(* Lookup methods.  A method that only reads leaves the mapper unchanged.  *)

Returns(op, args, value) ==
    /\ call' = [op |-> op, args |-> args]
    /\ ret' = value
    /\ factoryCalls' = <<>>
    /\ UNCHANGED <<config, registrations>>

GetDarkNameFromLightName(lightName) ==
    Returns("getDarkNameFromLightName", <<lightName>>, MapGet(fieldMap, lightName))

GetLightNameFromDarkName(darkName) ==
    Returns("getLightNameFromDarkName", <<darkName>>, MapGet(reverseFieldMap, darkName))

GetLightNames == Returns("getLightNames", <<>>, MapKeys(fieldMap))

GetDarkNamesOfFieldMap == Returns("getDarkNames", <<>>, MapKeys(fieldMap))

GetDarkNames == Returns("getDarkNames", <<>>, MapKeys(reverseFieldMap))

---------------------------------------------------------------------------
(* Objects: a function from property keys to values.                       *)

EmptyObject == <<>>

(* name in obj                                                             *)
HasProperty(obj, name) == ToPropertyKey(name) \in DOMAIN obj

(* obj[name]                                                               *)
GetProperty(obj, name) ==
    IF ToPropertyKey(name) \in DOMAIN obj
    THEN obj[ToPropertyKey(name)]
    ELSE UndefinedValue

(* obj[name] = value                                                       *)
SetProperty(obj, name, value) ==
    [k \in DOMAIN obj \cup {ToPropertyKey(name)} |->
        IF k = ToPropertyKey(name) THEN value ELSE obj[k]]

(* factory(data, originalObject): the object the factory makes.            *)
ApplyFactory(factory, data, original) ==
    [factory |-> factory, data |-> data, original |-> original]

(* toDark(value) / toLight(value) of a partial mapping: an object made     *)
(* from the callback and the object it is given.                           *)
MadeBy == Str("madeBy")

ApplyPartialMapping(fn, obj) ==
    [k \in DOMAIN obj \cup {MadeBy} |->
        IF k = MadeBy THEN <<fn>> ELSE <<fn>> \o obj[k]]

---------------------------------------------------------------------------
(* Single values.                                                          *)

TransformValueFromDarkByDarkName(darkName, value) ==
    IF MapHas(toLightTransformers, darkName)
    THEN ApplyTransformer(MapGet(toLightTransformers, darkName), value)
    ELSE value

TransformValueFromDarkValue(darkName, value) ==
    LET lightName == MapGet(reverseFieldMap, darkName) IN
    IF MapHas(toLightTransformers, lightName)
    THEN ApplyTransformer(MapGet(toLightTransformers, lightName), value)
    ELSE value

TransformValueFromLightValue(lightName, value) ==
    LET darkName == MapGet(fieldMap, lightName) IN
    IF MapHas(toDarkTransformers, darkName)
    THEN ApplyTransformer(MapGet(toDarkTransformers, darkName), value)
    ELSE value

TransformValueFromDark(darkName, value) ==
    Returns("transformValueFromDark", <<darkName, value>>,
            TransformValueFromDarkValue(darkName, value))

TransformValueFromLight(lightName, value) ==
    Returns("transformValueFromLight", <<lightName, value>>,
            TransformValueFromLightValue(lightName, value))

---------------------------------------------------------------------------
(* Mapping to the dark side.                                               *)

(* The loop over this.fieldMap, after its first n entries; `partial' is    *)
(* TRUE in mapPartialToDark, which copies a field only if it is in light.  *)
RECURSIVE DarkFieldLoopNoTest(_, _, _)
DarkFieldLoopNoTest(light, partial, n) ==
    IF n = 0 THEN EmptyObject
    ELSE LET data == DarkFieldLoopNoTest(light, partial, n - 1)
             lightName == fieldMap[n].key
             darkName == fieldMap[n].value
         IN  SetProperty(data, darkName,
                         TransformValueFromLightValue(lightName,
                                                      GetProperty(light, lightName)))

RECURSIVE DarkFieldLoop(_, _, _)
DarkFieldLoop(light, partial, n) ==
    IF n = 0 THEN EmptyObject
    ELSE LET data == DarkFieldLoop(light, partial, n - 1)
             lightName == fieldMap[n].key
             darkName == fieldMap[n].value
         IN  IF partial /\ ~HasProperty(light, lightName)
             THEN data
             ELSE SetProperty(data, darkName,
                              TransformValueFromLightValue(lightName,
                                                           GetProperty(light, lightName)))

(* The loop over this.partialMappings, after its first n entries.          *)
(* data = {...data, ...toDark(light)} would merge instead of replace.       *)
MergeObjects(data, over) ==
    [k \in DOMAIN data \cup DOMAIN over |->
        IF k \in DOMAIN over THEN over[k] ELSE data[k]]

RECURSIVE ToDarkLoopMerge(_, _, _)
ToDarkLoopMerge(data, light, n) ==
    IF n = 0 THEN data
    ELSE IF partialMappings[n].toDark # Absent
         THEN MergeObjects(ToDarkLoopMerge(data, light, n - 1),
                           ApplyPartialMapping(partialMappings[n].toDark, light))
         ELSE ToDarkLoopMerge(data, light, n - 1)

RECURSIVE ToDarkLoop(_, _, _)
ToDarkLoop(data, light, n) ==
    IF n = 0 THEN data
    ELSE IF partialMappings[n].toDark # Absent
         THEN ApplyPartialMapping(partialMappings[n].toDark, light)
         ELSE ToDarkLoop(data, light, n - 1)

(* `data' when the two loops are done.                                     *)
DarkData(light, partial) ==
    ToDarkLoop(DarkFieldLoop(light, partial, Len(fieldMap)), light,
               Len(partialMappings))

(* The value returned and the factory invocations made.                    *)
MapToDarkCall(light) ==
    LET data == DarkData(light, FALSE) IN
    IF darkFactory # Absent
    THEN [ret |-> ApplyFactory(darkFactory, data, light),
          factoryCalls |-> <<[factory |-> darkFactory, data |-> data,
                              original |-> light]>>]
    ELSE [ret |-> data, factoryCalls |-> <<>>]

MapPartialToDarkCallAlwaysFactory(light, useFactory) ==
    LET data == DarkData(light, TRUE) IN
    IF darkFactory # Absent
    THEN [ret |-> ApplyFactory(darkFactory, data, light),
          factoryCalls |-> <<[factory |-> darkFactory, data |-> data,
                              original |-> light]>>]
    ELSE [ret |-> data, factoryCalls |-> <<>>]

MapPartialToDarkCall(light, useFactory) ==
    LET data == DarkData(light, TRUE) IN
    IF useFactory /\ darkFactory # Absent
    THEN [ret |-> ApplyFactory(darkFactory, data, light),
          factoryCalls |-> <<[factory |-> darkFactory, data |-> data,
                              original |-> light]>>]
    ELSE [ret |-> data, factoryCalls |-> <<>>]

(* A method that reads the mapper and may invoke a factory.                *)
ReturnsCall(op, args, result) ==
    /\ call' = [op |-> op, args |-> args]
    /\ ret' = result.ret
    /\ factoryCalls' = result.factoryCalls
    /\ UNCHANGED <<config, registrations>>

MapToDark(light) == ReturnsCall("mapToDark", <<light>>, MapToDarkCall(light))

(* useFactory: boolean = false; the argument is "true", "false" or omitted.  *)
Omitted == "omitted"

UseFactoryParameter(useFactory) ==
    IF useFactory = Omitted THEN FALSE ELSE useFactory = "true"

MapPartialToDark(light, useFactory) ==
    ReturnsCall("mapPartialToDark", <<light, useFactory>>,
                MapPartialToDarkCall(light, UseFactoryParameter(useFactory)))

---------------------------------------------------------------------------
(* Mapping to the light side.                                              *)

RECURSIVE LightFieldLoopByLightName(_, _, _)
LightFieldLoopByLightName(dark, partial, n) ==
    IF n = 0 THEN EmptyObject
    ELSE LET data == LightFieldLoopByLightName(dark, partial, n - 1)
             lightName == fieldMap[n].key
             darkName == fieldMap[n].value
         IN  IF partial /\ ~HasProperty(dark, darkName)
             THEN data
             ELSE SetProperty(data, lightName,
                              TransformValueFromDarkValue(darkName,
                                                          GetProperty(dark, lightName)))

RECURSIVE LightFieldLoopNoTransform(_, _, _)
LightFieldLoopNoTransform(dark, partial, n) ==
    IF n = 0 THEN EmptyObject
    ELSE LET data == LightFieldLoopNoTransform(dark, partial, n - 1)
             lightName == fieldMap[n].key
             darkName == fieldMap[n].value
         IN  IF partial /\ ~HasProperty(dark, darkName)
             THEN data
             ELSE SetProperty(data, lightName, GetProperty(dark, darkName))

RECURSIVE LightFieldLoop(_, _, _)
LightFieldLoop(dark, partial, n) ==
    IF n = 0 THEN EmptyObject
    ELSE LET data == LightFieldLoop(dark, partial, n - 1)
             lightName == fieldMap[n].key
             darkName == fieldMap[n].value
         IN  IF partial /\ ~HasProperty(dark, darkName)
             THEN data
             ELSE SetProperty(data, lightName,
                              TransformValueFromDarkValue(darkName,
                                                          GetProperty(dark, darkName)))

RECURSIVE ToLightLoop(_, _, _)
ToLightLoop(data, dark, n) ==
    IF n = 0 THEN data
    ELSE IF partialMappings[n].toLight # Absent
         THEN ApplyPartialMapping(partialMappings[n].toLight, dark)
         ELSE ToLightLoop(data, dark, n - 1)

LightData(dark, partial) ==
    ToLightLoop(LightFieldLoop(dark, partial, Len(fieldMap)), dark,
                Len(partialMappings))

MapToLightCall(dark) ==
    LET data == LightData(dark, FALSE) IN
    IF lightFactory # Absent
    THEN [ret |-> ApplyFactory(lightFactory, data, dark),
          factoryCalls |-> <<[factory |-> lightFactory, data |-> data,
                              original |-> dark]>>]
    ELSE [ret |-> data, factoryCalls |-> <<>>]

MapPartialToLightCall(dark, useFactory) ==
    LET data == LightData(dark, TRUE) IN
    IF useFactory /\ lightFactory # Absent
    THEN [ret |-> ApplyFactory(lightFactory, data, dark),
          factoryCalls |-> <<[factory |-> lightFactory, data |-> data,
                              original |-> dark]>>]
    ELSE [ret |-> data, factoryCalls |-> <<>>]

MapToLight(dark) == ReturnsCall("mapToLight", <<dark>>, MapToLightCall(dark))

MapPartialToLight(dark, useFactory) ==
    ReturnsCall("mapPartialToLight", <<dark, useFactory>>,
                MapPartialToLightCall(dark, UseFactoryParameter(useFactory)))

---------------------------------------------------------------------------
(* Arrays.                                                                 *)

(* values.map(callback) calls callback(x, index, values) for each element  *)
(* in order; below, calls[i] is what the i-th call returned and invoked.   *)

(* The factory invocations of the first n calls, in order.                 *)
RECURSIVE FactoryCallsOf(_, _)
FactoryCallsOf(calls, n) ==
    IF n = 0 THEN <<>>
    ELSE FactoryCallsOf(calls, n - 1) \o calls[n].factoryCalls

(* The array returned and the factory invocations made.                    *)
ArrayResult(calls) ==
    [ret |-> [i \in 1..Len(calls) |-> calls[i].ret],
     factoryCalls |-> FactoryCallsOf(calls, Len(calls))]

(* values.map(this.mapToDark, this): mapToDark takes the element only.     *)
ArrayMapToDarkCall(values) ==
    ArrayResult([i \in 1..Len(values) |->
                    LET x == values[i] IN MapToDarkCall(x)])

(* values.map(this.mapPartialToDark, this) would pass the index on as      *)
(* useFactory.                                                             *)
ArrayMapPartialToDarkCallByIndex(values, useFactory) ==
    ArrayResult([i \in 1..Len(values) |->
                    LET x == values[i]
                        index == i - 1
                    IN  MapPartialToDarkCall(x, index # 0)])

(* values.map(x => this.mapPartialToDark(x, useFactory))                   *)
ArrayMapPartialToDarkCall(values, useFactory) ==
    ArrayResult([i \in 1..Len(values) |->
                    LET x == values[i] IN MapPartialToDarkCall(x, useFactory)])

ArrayMapToLightCall(values) ==
    ArrayResult([i \in 1..Len(values) |->
                    LET x == values[i] IN MapToLightCall(x)])

ArrayMapPartialToLightCall(values, useFactory) ==
    ArrayResult([i \in 1..Len(values) |->
                    LET x == values[i] IN MapPartialToLightCall(x, useFactory)])

ArrayMapToDark(values) ==
    ReturnsCall("arrayMapToDark", <<values>>, ArrayMapToDarkCall(values))

ArrayMapPartialToDark(values, useFactory) ==
    ReturnsCall("arrayMapPartialToDark", <<values, useFactory>>,
                ArrayMapPartialToDarkCall(values, UseFactoryParameter(useFactory)))

ArrayMapToLight(values) ==
    ReturnsCall("arrayMapToLight", <<values>>, ArrayMapToLightCall(values))

ArrayMapPartialToLight(values, useFactory) ==
    ReturnsCall("arrayMapPartialToLight", <<values, useFactory>>,
                ArrayMapPartialToLightCall(values, UseFactoryParameter(useFactory)))

---------------------------------------------------------------------------
(* Names: registrations and lookups over every kind of field name.         *)

Names == {Str("a"), Str("2"), Num("2"), Sym("s")}
DarkNameArgs == {Undefined, Str("x"), Str("y"), Num("0")}
NameTransformers == {"snake"}

NextNames ==
    \/ \E t \in NameTransformers : UseNameTransformer(t)
    \/ \E l \in Names, d \in DarkNameArgs :
          /\ Len(registrations) < MaxRegistrations
          /\ RegisterMapping(l, d, NoOptions)
    \/ \E l \in Names : GetDarkNameFromLightName(l)
    \/ \E d \in DarkNameArgs : GetLightNameFromDarkName(d)
    \/ GetLightNames
    \/ GetDarkNames

SpecNames == Init /\ [][NextNames]_vars

---------------------------------------------------------------------------
(* Properties of registration and lookup.                                  *)

RegisteredLightNames == {fieldMap[i].key : i \in 1..Len(fieldMap)}

(* No light name was registered twice.                                     *)
NoLightNameTwice ==
    \A i, j \in 1..Len(registrations) :
        registrations[i].lightName = registrations[j].lightName => i = j

(* No two registrations resolved to the same dark name.                    *)
NoDarkNameTwice ==
    \A i, j \in 1..Len(registrations) :
        registrations[i].darkName = registrations[j].darkName => i = j

(* No two registrations of different light names resolved to the same dark *)
(* name.                                                                   *)
NoDarkNameShared ==
    \A i, j \in 1..Len(registrations) :
        registrations[i].darkName = registrations[j].darkName
            => registrations[i].lightName = registrations[j].lightName

(* C1, as stated: after any sequence of registerMapping calls, every       *)
(* registered light name k has reverseFieldMap[fieldMap[k]] = k.           *)
C1_ReverseOfForward ==
    \A k \in RegisteredLightNames :
        MapGet(reverseFieldMap, MapGet(fieldMap, k)) = k

(* C1, amended: provided no two registerMapping calls with different light *)
(* names resolved to the same dark name, every registered light name k has *)
(* reverseFieldMap[fieldMap[k]] = k.                                       *)
C1_ReverseOfForwardUnshared ==
    NoDarkNameShared =>
        \A k \in RegisteredLightNames :
            MapGet(reverseFieldMap, MapGet(fieldMap, k)) = k

(* Three registrations, one of them a re-registration of a light name      *)
(* under another dark name, and no dark name shared by two light names.    *)
C1_Witness ==
    /\ call.op = "registerMapping"
    /\ Len(registrations) = 3
    /\ Len(fieldMap) = 2
    /\ Len(reverseFieldMap) = 3
    /\ NoDarkNameShared

(* C3, as stated: with a name transformer installed, a registration that   *)
(* passes an explicit dark name d (any value but undefined) resolves to d, *)
(* for every kind of light name.                                           *)
C3_ExplicitDarkNameWins ==
    (/\ call.op = "registerMapping"
     /\ nameTransformer # Absent
     /\ call.args[2] # Undefined)
        => MapGet(fieldMap, call.args[1]) = call.args[2]

(* C4: a registration that passes no dark name resolves to the name        *)
(* transformer's output if the light name is a string and a transformer is *)
(* installed, and to the light name itself in every other case.            *)
C4_DefaultDarkName ==
    (/\ call.op = "registerMapping"
     /\ call.args[2] = Undefined)
        => LET lightName == call.args[1] IN
           MapGet(fieldMap, lightName) =
               IF lightName.kind = "string" /\ nameTransformer # Absent
               THEN ApplyNameTransformer(nameTransformer, lightName)
               ELSE lightName

(* A number registered with no dark name while a transformer is installed. *)
C4_Witness ==
    /\ call.op = "registerMapping"
    /\ call.args[2] = Undefined
    /\ call.args[1].kind = "number"
    /\ nameTransformer # Absent
    /\ \E i \in 1..Len(registrations) :
          /\ registrations[i].lightName.kind = "string"
          /\ registrations[i].darkName # registrations[i].lightName

(* C8: provided no light name is registered twice and no two registrations *)
(* resolve to the same dark name, getLightNames() and getDarkNames() list  *)
(* the light names, resp. the resolved dark names, of the registerMapping  *)
(* calls in the order of the calls.                                        *)
C8_NamesInRegistrationOrder ==
    (NoLightNameTwice /\ NoDarkNameTwice) =>
        /\ call.op = "getLightNames" =>
              ret = [i \in 1..Len(registrations) |-> registrations[i].lightName]
        /\ call.op = "getDarkNames" =>
              ret = [i \in 1..Len(registrations) |-> registrations[i].darkName]

(* getDarkNames() after three registrations of distinct names, at least    *)
(* one of them under a dark name other than its light name.                *)
C8_Witness ==
    /\ call.op = "getDarkNames"
    /\ Len(registrations) = 3
    /\ NoLightNameTwice /\ NoDarkNameTwice
    /\ \E i \in 1..3 : registrations[i].darkName # registrations[i].lightName
    /\ Len(ret) = 3

---------------------------------------------------------------------------
(* Whole-object mapping: registrations with per-field transformers, over   *)
(* names that meet as property keys (2 and '2').                           *)

MapNames == {Str("a"), Str("2"), Num("2")}
MapDarkNameArgs == {Undefined, Str("x")}
Transformers == {"upper"}
MapOptions ==
    [toLightTransformer : Transformers \cup {Absent},
     toDarkTransformer : Transformers \cup {Absent}]
PropertyKeys == {Str("a"), Str("2"), Str("x")}

(* The value an input object holds under a key.                            *)
ValueOf(key) == <<"v" \o key.val>>

(* Objects whose properties all hold a value.                              *)
Objects == {[k \in S |-> ValueOf(k)] : S \in SUBSET PropertyKeys}

(* Objects some of whose properties hold undefined.                        *)
PartialObjects ==
    UNION {{[k \in S |-> IF k \in U THEN UndefinedValue ELSE ValueOf(k)] :
               U \in SUBSET S} : S \in SUBSET PropertyKeys}

NextMap ==
    \/ \E l \in MapNames, d \in MapDarkNameArgs, o \in MapOptions :
          /\ Len(registrations) < MaxMapRegistrations
          /\ RegisterMapping(l, d, o)
    \/ \E light \in Objects : MapToDark(light)
    \/ \E dark \in Objects : MapToLight(dark)
    \/ \E l \in MapNames : TransformValueFromLight(l, ValueOf(ToPropertyKey(l)))
    \/ \E d \in MapNames \cup {Str("x")} :
          TransformValueFromDark(d, ValueOf(ToPropertyKey(d)))

SpecMap == Init /\ [][NextMap]_vars

(* No two registrations name the same light property or resolve to the     *)
(* same dark property; names are compared as property keys, so that 2 and  *)
(* '2' are the same property.                                              *)
NoPropertyTwice ==
    \A i, j \in 1..Len(registrations) :
        (\/ ToPropertyKey(registrations[i].lightName)
               = ToPropertyKey(registrations[j].lightName)
         \/ ToPropertyKey(registrations[i].darkName)
               = ToPropertyKey(registrations[j].darkName))
            => i = j

NoTransformers == toLightTransformers = <<>> /\ toDarkTransformers = <<>>

NoFactories == lightFactory = Absent /\ darkFactory = Absent

LightProperties == {ToPropertyKey(fieldMap[i].key) : i \in 1..Len(fieldMap)}

DarkProperties == {ToPropertyKey(fieldMap[i].value) : i \in 1..Len(fieldMap)}

(* C2, as stated: on a mapper with registrations only, mapToLight undoes   *)
(* mapToDark on every object whose keys are the registered light names,    *)
(* and mapToDark undoes mapToLight on every object whose keys are the      *)
(* registered dark names.                                                  *)
C2_RoundTrip ==
    (NoTransformers /\ NoFactories /\ partialMappings = <<>>) =>
        /\ (call.op = "mapToDark" /\ DOMAIN call.args[1] = LightProperties)
              => MapToLightCall(ret).ret = call.args[1]
        /\ (call.op = "mapToLight" /\ DOMAIN call.args[1] = DarkProperties)
              => MapToDarkCall(ret).ret = call.args[1]

(* C2, amended: the round trips hold provided no two registrations name    *)
(* the same light property or resolve to the same dark property.           *)
C2_RoundTripDistinct ==
    (NoPropertyTwice /\ NoTransformers /\ NoFactories /\ partialMappings = <<>>) =>
        /\ (call.op = "mapToDark" /\ DOMAIN call.args[1] = LightProperties)
              => MapToLightCall(ret).ret = call.args[1]
        /\ (call.op = "mapToLight" /\ DOMAIN call.args[1] = DarkProperties)
              => MapToDarkCall(ret).ret = call.args[1]

(* mapToLight of an object with the two dark names of two fields, one of   *)
(* them registered under a dark name other than its light name.            *)
C2_Witness ==
    /\ call.op = "mapToLight"
    /\ Len(registrations) = 2
    /\ NoPropertyTwice /\ NoTransformers
    /\ DOMAIN call.args[1] = DarkProperties
    /\ DarkProperties # LightProperties
    /\ DOMAIN ret = LightProperties

(* What registration i promises of mapToDark(light): the field's value,    *)
(* through the toDarkTransformer of that registration if it gave one.      *)
DarkValueOf(i, light) ==
    LET r == registrations[i]
        value == GetProperty(light, r.lightName)
    IN  IF r.options.toDarkTransformer # Absent
        THEN ApplyTransformer(r.options.toDarkTransformer, value)
        ELSE value

LightValueOf(i, dark) ==
    LET r == registrations[i]
        value == GetProperty(dark, r.darkName)
    IN  IF r.options.toLightTransformer # Absent
        THEN ApplyTransformer(r.options.toLightTransformer, value)
        ELSE value

(* C5, as stated: after any sequence of registrations, mapToDark passes    *)
(* the value of a field registered with a toDarkTransformer through that   *)
(* transformer and copies the value of a field registered without one;     *)
(* likewise mapToLight and toLightTransformer.                             *)
C5_OwnTransformerOnly ==
    /\ call.op = "mapToDark" =>
          \A i \in 1..Len(registrations) :
              /\ HasProperty(ret, registrations[i].darkName)
              /\ GetProperty(ret, registrations[i].darkName)
                     = DarkValueOf(i, call.args[1])
    /\ call.op = "mapToLight" =>
          \A i \in 1..Len(registrations) :
              /\ HasProperty(ret, registrations[i].lightName)
              /\ GetProperty(ret, registrations[i].lightName)
                     = LightValueOf(i, call.args[1])

(* C5, amended: the same, after any sequence of registrations in which no  *)
(* two name the same light property or resolve to the same dark property.  *)
C5_OwnTransformerOnlyDistinct ==
    NoPropertyTwice =>
        /\ call.op = "mapToDark" =>
              \A i \in 1..Len(registrations) :
                  /\ HasProperty(ret, registrations[i].darkName)
                  /\ GetProperty(ret, registrations[i].darkName)
                         = DarkValueOf(i, call.args[1])
        /\ call.op = "mapToLight" =>
              \A i \in 1..Len(registrations) :
                  /\ HasProperty(ret, registrations[i].lightName)
                  /\ GetProperty(ret, registrations[i].lightName)
                         = LightValueOf(i, call.args[1])

(* mapToDark of an object with both fields, one registered with a          *)
(* toDarkTransformer and its sibling with none.                            *)
C5_Witness ==
    /\ call.op = "mapToDark"
    /\ Len(registrations) = 2
    /\ NoPropertyTwice
    /\ registrations[1].options.toDarkTransformer # Absent
    /\ registrations[2].options.toDarkTransformer = Absent
    /\ DOMAIN call.args[1] = LightProperties
    /\ GetProperty(ret, registrations[1].darkName)
           = ApplyTransformer("upper", GetProperty(call.args[1], registrations[1].lightName))
    /\ GetProperty(ret, registrations[2].darkName)
           = GetProperty(call.args[1], registrations[2].lightName)

---------------------------------------------------------------------------
(* Partial mapping and factories.                                          *)

PartialNames == {Str("a"), Num("2")}
Factories == {"make"}
UseFactoryArgs == {Omitted, "false", "true"}

NextPartial ==
    \/ \E f \in Factories : UseFactory(f)
    \/ \E f \in Factories : UseLightFactory(f)
    \/ \E f \in Factories : UseDarkFactory(f)
    \/ \E l \in PartialNames, d \in MapDarkNameArgs :
          /\ Len(registrations) < MaxMapRegistrations
          /\ RegisterMapping(l, d, NoOptions)
    \/ \E light \in PartialObjects, u \in UseFactoryArgs : MapPartialToDark(light, u)
    \/ \E dark \in PartialObjects, u \in UseFactoryArgs : MapPartialToLight(dark, u)
    \/ \E light \in Objects : MapToDark(light)
    \/ \E dark \in Objects : MapToLight(dark)

SpecPartial == Init /\ [][NextPartial]_vars

(* The dark properties of the registered fields whose light name is a key  *)
(* of the object, and the light properties of those whose dark name is.    *)
DarkPropertiesPresent(light) ==
    {ToPropertyKey(fieldMap[i].value) :
        i \in {j \in 1..Len(fieldMap) :
                  ToPropertyKey(fieldMap[j].key) \in DOMAIN light}}

LightPropertiesPresent(dark) ==
    {ToPropertyKey(fieldMap[i].key) :
        i \in {j \in 1..Len(fieldMap) :
                  ToPropertyKey(fieldMap[j].value) \in DOMAIN dark}}

(* The raw assembled result is returned: no factory is both asked for and  *)
(* configured.                                                             *)
RawToDark == ~(call.args[2] = "true" /\ darkFactory # Absent)
RawToLight == ~(call.args[2] = "true" /\ lightFactory # Absent)

C7_PartialFactoryOptIn ==
    darkFactory # Absent =>
        /\ (call.op = "mapPartialToDark" /\ call.args[2] = "true") =>
              /\ factoryCalls =
                     <<[factory |-> darkFactory,
                        data |-> MapPartialToDarkCall(call.args[1], FALSE).ret,
                        original |-> call.args[1]]>>
              /\ ret = ApplyFactory(darkFactory, factoryCalls[1].data, call.args[1])
              /\ DOMAIN factoryCalls[1].data = DarkPropertiesPresent(call.args[1])
        /\ (call.op = "mapPartialToDark" /\ call.args[2] \in {Omitted, "false"}) =>
              /\ factoryCalls = <<>>
              /\ DOMAIN ret = DarkPropertiesPresent(call.args[1])
        /\ call.op = "mapToDark" =>
              /\ Len(factoryCalls) = 1
              /\ factoryCalls[1].factory = darkFactory
              /\ factoryCalls[1].original = call.args[1]
              /\ DOMAIN factoryCalls[1].data = DarkProperties
              /\ ret = ApplyFactory(darkFactory, factoryCalls[1].data, call.args[1])

(* mapPartialToDark(partial, true) with a dark factory and two fields, one *)
(* of them not in partial.                                                 *)
C7_Witness ==
    /\ call.op = "mapPartialToDark"
    /\ call.args[2] = "true"
    /\ darkFactory # Absent
    /\ Len(fieldMap) = 2
    /\ HasProperty(call.args[1], fieldMap[1].key)
    /\ ~HasProperty(call.args[1], fieldMap[2].key)
    /\ Len(factoryCalls) = 1
    /\ ret.factory = darkFactory

---------------------------------------------------------------------------
(* Array mapping.                                                          *)

ArrayObjects ==
    {(Str("a") :> ValueOf(Str("a"))),
     (Str("2") :> ValueOf(Str("2"))) @@ (Str("x") :> UndefinedValue)}

Arrays == UNION {[1..n -> ArrayObjects] : n \in 0..MaxArrayLen}

NextArrays ==
    \/ \E f \in Factories : UseFactory(f)
    \/ \E f \in Factories : UseDarkFactory(f)
    \/ \E l \in PartialNames, d \in MapDarkNameArgs :
          /\ Len(registrations) < MaxMapRegistrations
          /\ RegisterMapping(l, d, NoOptions)
    \/ \E values \in Arrays : ArrayMapToDark(values)
    \/ \E values \in Arrays : ArrayMapToLight(values)
    \/ \E values \in Arrays, u \in UseFactoryArgs : ArrayMapPartialToDark(values, u)
    \/ \E values \in Arrays, u \in UseFactoryArgs : ArrayMapPartialToLight(values, u)

SpecArrays == Init /\ [][NextArrays]_vars

(* C9: each array method returns an array as long as its input whose i-th  *)
(* element is what the single-object method returns for the i-th input     *)
(* (with the same useFactory for every element), and the factory           *)
(* invocations are those of the single calls in order: with useFactory     *)
(* true and a dark factory, arrayMapPartialToDark invokes the factory once *)
(* per element, with that element's assembled result and that element.     *)
C9_ArraysElementWise ==
    LET values == call.args[1]
        SameLength == Len(ret) = Len(values)
    IN
    /\ call.op = "arrayMapToDark" =>
          /\ SameLength
          /\ \A i \in 1..Len(values) : ret[i] = MapToDarkCall(values[i]).ret
    /\ call.op = "arrayMapToLight" =>
          /\ SameLength
          /\ \A i \in 1..Len(values) : ret[i] = MapToLightCall(values[i]).ret
    /\ call.op = "arrayMapPartialToLight" =>
          /\ SameLength
          /\ \A i \in 1..Len(values) :
                ret[i] = MapPartialToLightCall(values[i], call.args[2] = "true").ret
    /\ call.op = "arrayMapPartialToDark" =>
          /\ SameLength
          /\ \A i \in 1..Len(values) :
                ret[i] = MapPartialToDarkCall(values[i], call.args[2] = "true").ret
          /\ (call.args[2] = "true" /\ darkFactory # Absent) =>
                /\ Len(factoryCalls) = Len(values)
                /\ \A i \in 1..Len(values) :
                      factoryCalls[i] =
                          [factory |-> darkFactory,
                           data |-> MapPartialToDarkCall(values[i], FALSE).ret,
                           original |-> values[i]]
          /\ (call.args[2] # "true" \/ darkFactory = Absent) => factoryCalls = <<>>

(* arrayMapPartialToDark([p1, p2], true) with a dark factory and a field   *)
(* of p1: two invocations, on different assembled results.                 *)
C9_Witness ==
    /\ call.op = "arrayMapPartialToDark"
    /\ call.args[2] = "true"
    /\ darkFactory # Absent
    /\ Len(call.args[1]) = 2
    /\ call.args[1][1] # call.args[1][2]
    /\ Len(factoryCalls) = 2
    /\ factoryCalls[1].data # factoryCalls[2].data
    /\ ret[1] = ApplyFactory(darkFactory, factoryCalls[1].data, call.args[1][1])
    /\ ret[2] = ApplyFactory(darkFactory, factoryCalls[2].data, call.args[1][2])

---------------------------------------------------------------------------
(* Partial-mapping hooks.                                                  *)

PartialMappingArgs ==
    {[toDark |-> "d1", toLight |-> Absent],
     [toDark |-> Absent, toLight |-> "l1"],
     [toDark |-> "d2", toLight |-> "l2"]}

HookObjects ==
    {EmptyObject,
     (Str("a") :> ValueOf(Str("a"))),
     (Str("a") :> ValueOf(Str("a"))) @@ (Str("2") :> ValueOf(Str("2")))
         @@ (Str("x") :> ValueOf(Str("x")))}

NextHooks ==
    \/ \E f \in Factories : UseFactory(f)
    \/ \E f \in Factories : UseDarkFactory(f)
    \/ \E l \in PartialNames, d \in MapDarkNameArgs :
          /\ Len(registrations) < MaxMapRegistrations
          /\ RegisterMapping(l, d, NoOptions)
    \/ \E m \in PartialMappingArgs :
          /\ Len(partialMappings) < MaxPartialMappings
          /\ UsePartialMapping(m)
    \/ \E light \in HookObjects : MapToDark(light)
    \/ \E dark \in HookObjects : MapToLight(dark)
    \/ \E light \in HookObjects, u \in UseFactoryArgs : MapPartialToDark(light, u)
    \/ \E dark \in HookObjects, u \in UseFactoryArgs : MapPartialToLight(dark, u)

SpecHooks == Init /\ [][NextHooks]_vars

(* The data handed to the factory if one was invoked, else returned.       *)
ResultData == IF factoryCalls # <<>> THEN factoryCalls[1].data ELSE ret

ToDarkHooks == {i \in 1..Len(partialMappings) : partialMappings[i].toDark # Absent}
ToLightHooks == {i \in 1..Len(partialMappings) : partialMappings[i].toLight # Absent}

Last(S) == CHOOSE i \in S : \A j \in S : j <= i

(* C10: in mapToDark and mapPartialToDark, if some hook defines toDark the *)
(* data handed to the factory, or returned, is the return value of the     *)
(* last-registered hook that defines toDark, called on the input object;   *)
(* if none does (hooks that define toLight only included) it is the        *)
(* field-by-field result.  Likewise toLight in mapToLight and              *)
(* mapPartialToLight.                                                      *)
C10_LastHookReplaces ==
    /\ call.op \in {"mapToDark", "mapPartialToDark"} =>
          IF ToDarkHooks # {}
          THEN ResultData =
                   ApplyPartialMapping(partialMappings[Last(ToDarkHooks)].toDark,
                                       call.args[1])
          ELSE ResultData =
                   DarkFieldLoop(call.args[1], call.op = "mapPartialToDark",
                                 Len(fieldMap))
    /\ call.op \in {"mapToLight", "mapPartialToLight"} =>
          IF ToLightHooks # {}
          THEN ResultData =
                   ApplyPartialMapping(partialMappings[Last(ToLightHooks)].toLight,
                                       call.args[1])
          ELSE ResultData =
                   LightFieldLoop(call.args[1], call.op = "mapPartialToLight",
                                  Len(fieldMap))

(* mapToDark with a dark factory, a field the input has, and two hooks     *)
(* that both define toDark: the factory is handed the second hook's value, *)
(* in which the field's dark name does not appear.                         *)
C10_Witness ==
    /\ call.op = "mapToDark"
    /\ darkFactory # Absent
    /\ Len(partialMappings) = 2
    /\ ToDarkHooks = {1, 2}
    /\ Len(fieldMap) >= 1
    /\ HasProperty(call.args[1], fieldMap[1].key)
    /\ fieldMap[1].value = Str("x")
    /\ ~HasProperty(call.args[1], Str("x"))
    /\ factoryCalls[1].data =
           ApplyPartialMapping(partialMappings[2].toDark, call.args[1])
    /\ ~HasProperty(factoryCalls[1].data, Str("x"))

---------------------------------------------------------------------------
(* Re-registration of a light name under another dark name.                *)

(* The place of a key among the keys of a Map, 0 if it is not one.         *)
IndexOf(keys, key) ==
    IF \E i \in 1..Len(keys) : keys[i] = key
    THEN CHOOSE i \in 1..Len(keys) : keys[i] = key
    ELSE 0

Occurrences(keys, key) == Cardinality({i \in 1..Len(keys) : keys[i] = key})

(* The place a light name took in fieldMap when registration i, its first, *)
(* was made: the number of light names registered up to then.              *)
OriginalPosition(i) ==
    Cardinality({registrations[j].lightName : j \in 1..i})

(* The last call was registerMapping(k, d2), registration i was            *)
(* registerMapping(k, d1) with d1 # d2, and no other registration names k  *)
(* or names or resolves to d1 or d2.                                       *)
ReRegistered(i) ==
    LET n == Len(registrations)
        k == registrations[n].lightName
        d1 == registrations[i].given
        d2 == registrations[n].given
    IN  /\ call.op = "registerMapping"
        /\ i < n
        /\ registrations[i].lightName = k
        /\ d1 # Undefined /\ d2 # Undefined /\ d1 # d2
        /\ \A j \in 1..n : j \notin {i, n} =>
              /\ registrations[j].lightName \notin {k, d1, d2}
              /\ registrations[j].given \notin {d1, d2}
              /\ registrations[j].darkName \notin {d1, d2}

(* What C11 says of the mapper after such a re-registration.               *)
LastWriteWinsNoCleanup(i) ==
    LET n == Len(registrations)
        k == registrations[n].lightName
        d1 == registrations[i].given
        d2 == registrations[n].given
        lightNames == MapKeys(fieldMap)
        darkNames == MapKeys(reverseFieldMap)
    IN  /\ MapGet(fieldMap, k) = d2
        /\ Occurrences(lightNames, k) = 1
        /\ lightNames[OriginalPosition(i)] = k
        /\ MapGet(reverseFieldMap, d1) = k
        /\ Occurrences(darkNames, d1) = 1
        /\ darkNames[Len(darkNames)] = d2
        /\ IndexOf(darkNames, d1) < IndexOf(darkNames, d2)

(* C11, as stated: after registerMapping(k, d1) followed, possibly after   *)
(* other registrations not involving k, d1 or d2, by registerMapping(k,    *)
(* d2) with d1 # d2: getDarkNameFromLightName(k) is d2, getLightNames()    *)
(* has k once at its original position, getLightNameFromDarkName(d1) is    *)
(* still k, and getDarkNames() still has d1, with d2 appended after it.    *)
C11_ReRegistrationKeepsStaleEntry ==
    \A i \in 1..Len(registrations) :
        ReRegistered(i) => LastWriteWinsNoCleanup(i)

(* The same for dark names that registerMapping takes as given (neither 0  *)
(* nor ''): the behaviour C11 describes, apart from the falsy names.       *)
C11_ReRegistrationTruthyNames ==
    \A i \in 1..Len(registrations) :
        (/\ ReRegistered(i)
         /\ Truthy(registrations[i].given)
         /\ Truthy(registrations[Len(registrations)].given))
            => LastWriteWinsNoCleanup(i)

(* A re-registration with truthy names and another registration between.   *)
C11_TruthyReached ==
    /\ Len(registrations) = 3
    /\ ReRegistered(1)
    /\ Truthy(registrations[1].given)
    /\ Truthy(registrations[3].given)
    /\ LastWriteWinsNoCleanup(1)

---------------------------------------------------------------------------
(* mapToLight against a loop over reverseFieldMap.                         *)

(* The object C12 describes, after the first n entries of reverseFieldMap: *)
(* result[lightName] = transformValueFromDark(darkName, dark[darkName])    *)
(* for each entry (darkName, lightName), in the Map's order.               *)
RECURSIVE ReverseFieldLoop(_, _)
ReverseFieldLoop(dark, n) ==
    IF n = 0 THEN EmptyObject
    ELSE LET darkName == reverseFieldMap[n].key
             lightName == reverseFieldMap[n].value
         IN  SetProperty(ReverseFieldLoop(dark, n - 1), lightName,
                         TransformValueFromDarkValue(darkName,
                                                     GetProperty(dark, darkName)))

(* C12, as stated: on a mapper reached by any sequence of registrations,   *)
(* with no hooks and no factory, mapToLight(dark) is the object built from *)
(* the entries of reverseFieldMap.                                         *)
C12_MapToLightByReverseMap ==
    (call.op = "mapToLight" /\ NoFactories /\ partialMappings = <<>>) =>
        ret = ReverseFieldLoop(call.args[1], Len(reverseFieldMap))

(* C12, amended: the same on a mapper reached by a sequence of             *)
(* registrations in which no light name is registered twice and no two     *)
(* registrations resolve to the same dark name.                            *)
C12_MapToLightByReverseMapDistinct ==
    (/\ call.op = "mapToLight" /\ NoFactories /\ partialMappings = <<>>
     /\ NoLightNameTwice /\ NoDarkNameTwice) =>
        ret = ReverseFieldLoop(call.args[1], Len(reverseFieldMap))

(* mapToLight of an object that has both dark names, on two fields with    *)
(* distinct names, the first registered under another dark name and with a *)
(* toLightTransformer.                                                     *)
C12_Witness ==
    /\ call.op = "mapToLight"
    /\ Len(registrations) = 2
    /\ NoLightNameTwice /\ NoDarkNameTwice
    /\ registrations[1].darkName # registrations[1].lightName
    /\ registrations[1].options.toLightTransformer # Absent
    /\ DOMAIN call.args[1] = DarkProperties
    /\ Len(reverseFieldMap) = 2
    /\ GetProperty(ret, registrations[1].lightName)
           = ApplyTransformer(registrations[1].options.toLightTransformer,
                              GetProperty(call.args[1], registrations[1].darkName))

====
